---- MODULE Spec2Model ----
(***************************************************************************)
(* Model of script_generator/scripts/analyze_video.py: the pipeline        *)
(* orchestrator analyze_video, the progress monitor log_progress and the   *)
(* stage workers it wires together with bounded queues.                    *)
(*                                                                         *)
(* The stage workers (VideoWorker, VrTo2DWorker, YoloWorker,               *)
(* PostProcessWorker) are threads whose run loop is defined outside this   *)
(* file; their behaviour is taken from section 4.2 of the specification.   *)
(***************************************************************************)
EXTENDS Integers, Sequences, FiniteSets

\* ------------------------------------------------------------------ bounds
MaxFrames == 2
MaxCap == 3

\* --------------------------------------------------------------- constants
OPENGL_READER == "FFmpeg + OpenGL (Windows)"
FFMPEG_READER == "FFmpeg"
Readers == {OPENGL_READER, FFMPEG_READER}

WARN_2D == "Disabled OpenGL in the pipeline as it's not needed for 2D videos"
WARN_FISHEYE == "Disabled OpenGL as fisheye is not yet supported with the opengl feature"

Stages == {"decode_thread", "opengl_thread", "yolo_thread", "yolo_analysis_thread"}
QueueNames == {"opengl_q", "yolo_q", "analysis_q", "result_q"}

\* The end-of-stream marker (None) and a frame task created by the decode stage.
Sentinel == [kind |-> "eos", id |-> 0, profile |-> {}]
NewTask(i) == [kind |-> "task", id |-> i, profile |-> {}]
IsSentinel(t) == t.kind = "eos"

VARIABLES
    sequential_mode,  \* SEQUENTIAL_MODE
    queue_maxsize,    \* QUEUE_MAXSIZE
    total_frames,     \* state.video_info.total_frames
    is_vr,            \* state.video_info.is_vr
    is_fisheye,       \* state.video_info.is_fisheye
    has_update_ui,    \* state.update_ui is set
    requested_reader, \* state.video_reader when analyze_video is called
    video_reader,     \* state.video_reader
    warnings,         \* messages given to log.warn
    use_open_gl,      \* use_open_gl
    pc,               \* position of analyze_video
    idx,              \* index of the current for loop / run_thread call
    threads,          \* threads
    stop_event,       \* log_thread_stop_event
    queues_created,   \* the four queues exist
    q,                \* contents of each queue
    pushed,           \* every item ever put into each queue, in order (ids, 0 = sentinel)
    w_pc,             \* position of each stage worker
    w_cur,            \* the item a worker holds
    w_exc,            \* exception stored on each worker ("none" if none)
    decode_next,      \* frames the video source has handed out
    m_pc,             \* position of log_progress
    m_frames,         \* frames_processed of the update being sent
    sink_last,        \* last ProgressMessage delivered to state.update_ui
    error,            \* the exception analyze_video caught / re-raised
    timed_joins,      \* threads joined with timeout=1 in the except block
    perf_total,       \* total_frames computed by log_performance
    perf_report,      \* aggregated_times and the averages log_performance reports
    returned          \* the value analyze_video returned

config_vars == <<sequential_mode, queue_maxsize, total_frames, is_vr, is_fisheye,
                 has_update_ui, requested_reader>>
reader_vars == <<video_reader, warnings, use_open_gl>>
orch_vars == <<pc, idx, threads, error, timed_joins, perf_total, perf_report, returned>>
queue_vars == <<queues_created, q, pushed>>
worker_vars == <<w_pc, w_cur, w_exc, decode_next>>
monitor_vars == <<m_pc, m_frames>>
sink_vars == <<sink_last>>

vars == <<config_vars, reader_vars, orch_vars, queue_vars, worker_vars, monitor_vars,
          sink_vars, stop_event>>

\* ------------------------------------------------------------------ queues
\* queue.Queue(maxsize=...): 0 means unbounded.
QueueMaxsizeUnbounded(name) == 0
QueueMaxsize(name) == IF name = "result_q" THEN 0 ELSE queue_maxsize

\* queue.Queue is first-in first-out: get() takes the oldest item.
QueueGetLifo(s) == [item |-> s[Len(s)], rest |-> SubSeq(s, 1, Len(s) - 1)]
QueueGet(s) == [item |-> Head(s), rest |-> Tail(s)]

\* put() blocks while the queue holds maxsize items.
CanPut(name) == QueueMaxsize(name) = 0 \/ Len(q[name]) < QueueMaxsize(name)

Put(name, item) ==
    /\ CanPut(name)
    /\ q' = [q EXCEPT ![name] = Append(@, item)]
    /\ pushed' = [pushed EXCEPT ![name] = Append(@, item.id)]

\* ----------------------------------------------------------------- wiring
\* VideoWorker(output_queue=opengl_q if use_open_gl else yolo_q), ...
OutputQueue(s) ==
    CASE s = "decode_thread" -> IF use_open_gl THEN "opengl_q" ELSE "yolo_q"
      [] s = "opengl_thread" -> "yolo_q"
      [] s = "yolo_thread" -> "analysis_q"
      [] s = "yolo_analysis_thread" -> "result_q"

InputQueue(s) ==
    CASE s = "opengl_thread" -> "opengl_q"
      [] s = "yolo_thread" -> "yolo_q"
      [] s = "yolo_analysis_thread" -> "analysis_q"

\* threads = [decode, opengl, yolo, analysis] if use_open_gl else [decode, yolo, analysis]
ThreadListReversed(gl) ==
    IF gl THEN <<"yolo_analysis_thread", "yolo_thread", "opengl_thread", "decode_thread">>
    ELSE <<"yolo_analysis_thread", "yolo_thread", "decode_thread">>
ThreadList(gl) ==
    IF gl THEN <<"decode_thread", "opengl_thread", "yolo_thread", "yolo_analysis_thread">>
    ELSE <<"decode_thread", "yolo_thread", "yolo_analysis_thread">>

\* The run_thread calls of sequential mode, with the queue each one puts None into.
RunList(gl) ==
    <<[thread |-> "decode_thread", out_queue |-> "opengl_q"]>>
    \o (IF gl THEN <<[thread |-> "opengl_thread", out_queue |-> "yolo_q"]>> ELSE <<>>)
    \o <<[thread |-> "yolo_thread", out_queue |-> "analysis_q"],
         [thread |-> "yolo_analysis_thread", out_queue |-> "result_q"]>>

\* The reader override of analyze_video.
ResolveReaderNoFisheye(reader, vr, fisheye) ==
    IF reader = OPENGL_READER /\ ~vr
    THEN [reader |-> FFMPEG_READER, warns |-> {WARN_2D}]
    ELSE [reader |-> reader, warns |-> {}]
ResolveReader(reader, vr, fisheye) ==
    IF reader = OPENGL_READER
    THEN [reader |-> IF ~vr \/ fisheye THEN FFMPEG_READER ELSE reader,
          warns |-> (IF ~vr THEN {WARN_2D} ELSE {})
                    \cup (IF fisheye THEN {WARN_FISHEYE} ELSE {})]
    ELSE [reader |-> reader, warns |-> {}]

\* ------------------------------------------------------------ progress ETA
\* The eta field of a ProgressMessage: a fixed text, or a time of day h:m:s.
NoEta == [text |-> "", h |-> 0, m |-> 0, s |-> 0]
DONE == [text |-> "Done", h |-> 0, m |-> 0, s |-> 0]
CALCULATING == [text |-> "Calculating...", h |-> 0, m |-> 0, s |-> 0]

\* time.strftime("%H:%M:%S", time.gmtime(t)): the time of day t seconds after
\* the epoch (t truncated to whole seconds; whole days are dropped).
Strftime(t) ==
    LET d == t % 86400
    IN [text |-> "%H:%M:%S", h |-> d \div 3600, m |-> (d \div 60) % 60, s |-> d % 60]

\* processing_rate = frames_processed / elapsed_time if elapsed_time > 0 else 0;
\* eta = remaining_frames / processing_rate if processing_rate > 0 else inf,
\* in whole seconds: remaining * elapsed / frames_processed.
RateIsZero(frames, elapsed) == elapsed <= 0 \/ frames = 0
EtaSeconds(total, frames, elapsed) == ((total - frames) * elapsed) \div frames
EtaString(total, frames, elapsed) ==
    IF RateIsZero(frames, elapsed) THEN CALCULATING
    ELSE Strftime(EtaSeconds(total, frames, elapsed))

\* Values of time.time() - state.analyze_task.start_time, in seconds.
ElapsedTimes == {0, 86400}

\* -------------------------------------------------------------------- Init
Init ==
    /\ sequential_mode \in BOOLEAN
    /\ queue_maxsize \in 1..MaxCap
    /\ total_frames \in 0..MaxFrames
    /\ is_vr \in BOOLEAN
    /\ is_fisheye \in BOOLEAN
    /\ has_update_ui \in BOOLEAN
    /\ requested_reader \in Readers
    /\ video_reader = requested_reader
    /\ warnings = {}
    /\ use_open_gl = FALSE
    /\ pc = "check_create_output_folder"
    /\ idx = 1
    /\ threads = <<>>
    /\ stop_event = FALSE
    /\ queues_created = FALSE
    /\ q = [n \in QueueNames |-> <<>>]
    /\ pushed = [n \in QueueNames |-> <<>>]
    /\ w_pc = [s \in Stages |-> "absent"]
    /\ w_cur = [s \in Stages |-> Sentinel]
    /\ w_exc = [s \in Stages |-> "none"]
    /\ decode_next = 0
    /\ m_pc = "unstarted"
    /\ m_frames = 0
    /\ sink_last = [kind |-> "none", frames |-> 0, eta |-> NoEta, elapsed |-> 0]
    /\ error = "none"
    /\ timed_joins = {}
    /\ perf_total = 0
    /\ perf_report = [key \in {} |-> 0]
    /\ returned = <<>>

\* ------------------------------------------------------- analyze_video: setup
\* check_create_output_folder(state.video_path)
CheckCreateOutputFolder ==
    /\ pc = "check_create_output_folder"
    /\ pc' = "set_video_info"
    /\ UNCHANGED <<config_vars, reader_vars, idx, threads, error, timed_joins, perf_total,
                   perf_report,
                   returned, queue_vars, worker_vars, monitor_vars, sink_vars, stop_event>>

CheckCreateOutputFolderFails ==
    /\ pc = "check_create_output_folder"
    /\ pc' = "except"
    /\ error' = "check_create_output_folder"
    /\ UNCHANGED <<config_vars, reader_vars, idx, threads, timed_joins, perf_total, perf_report,
                   returned, queue_vars, worker_vars, monitor_vars, sink_vars, stop_event>>

SetVideoInfoFailureIgnored ==
    /\ pc = "set_video_info"
    /\ pc' = "resolve_reader"
    /\ error' = "set_video_info"
    /\ UNCHANGED <<config_vars, reader_vars, idx, threads, timed_joins, perf_total, perf_report,
                   returned, queue_vars, worker_vars, monitor_vars, sink_vars, stop_event>>

\* state.set_video_info()
SetVideoInfo ==
    /\ pc = "set_video_info"
    /\ pc' = "resolve_reader"
    /\ UNCHANGED <<config_vars, reader_vars, idx, threads, error, timed_joins, perf_total,
                   perf_report,
                   returned, queue_vars, worker_vars, monitor_vars, sink_vars, stop_event>>

SetVideoInfoFails ==
    /\ pc = "set_video_info"
    /\ pc' = "except"
    /\ error' = "set_video_info"
    /\ UNCHANGED <<config_vars, reader_vars, idx, threads, timed_joins, perf_total, perf_report,
                   returned, queue_vars, worker_vars, monitor_vars, sink_vars, stop_event>>

\* The override of state.video_reader, then use_open_gl.
ResolveVideoReader ==
    /\ pc = "resolve_reader"
    /\ LET r == ResolveReader(video_reader, is_vr, is_fisheye)
       IN /\ video_reader' = r.reader
          /\ warnings' = warnings \cup r.warns
          /\ use_open_gl' = (r.reader = OPENGL_READER)
    /\ pc' = "create_pipeline"
    /\ UNCHANGED <<config_vars, idx, threads, error, timed_joins, perf_total,
                   perf_report, returned,
                   queue_vars, worker_vars, monitor_vars, sink_vars, stop_event>>

\* Create queues, create threads (opengl_thread is None unless use_open_gl).
CreatePipeline ==
    /\ pc = "create_pipeline"
    /\ queues_created' = TRUE
    /\ w_pc' = [s \in Stages |->
                  IF s = "opengl_thread" /\ ~use_open_gl THEN "absent" ELSE "created"]
    /\ pc' = "start_monitor"
    /\ UNCHANGED <<config_vars, reader_vars, idx, threads, error, timed_joins, perf_total,
                   perf_report,
                   returned, q, pushed, w_cur, w_exc, decode_next, monitor_vars, sink_vars,
                   stop_event>>

\* queue_logging_thread.start()
StartMonitor ==
    /\ pc = "start_monitor"
    /\ m_pc' = "loop"
    /\ pc' = IF sequential_mode THEN "seq_start" ELSE "conc_threads"
    /\ idx' = 1
    /\ UNCHANGED <<config_vars, reader_vars, threads, error, timed_joins, perf_total,
                   perf_report,
                   returned, queue_vars, worker_vars, m_frames, sink_vars, stop_event>>

\* ---------------------------------------------- analyze_video: sequential mode
\* run_thread: thread.start()
SeqStart ==
    /\ pc = "seq_start"
    /\ w_pc' = [w_pc EXCEPT ![RunList(use_open_gl)[idx].thread] = "get"]
    /\ pc' = "seq_join"
    /\ UNCHANGED <<config_vars, reader_vars, idx, threads, error, timed_joins, perf_total,
                   perf_report,
                   returned, queue_vars, w_cur, w_exc, decode_next, monitor_vars, sink_vars,
                   stop_event>>

\* run_thread: thread.start() raises (the thread cannot be started).
SeqStartFails ==
    /\ pc = "seq_start"
    /\ error' = "thread_start"
    /\ pc' = "except"
    /\ UNCHANGED <<config_vars, reader_vars, idx, threads, timed_joins, perf_total, perf_report,
                   returned, queue_vars, worker_vars, monitor_vars, sink_vars, stop_event>>

SeqJoinNoWait ==
    /\ pc = "seq_join"
    /\ pc' = "seq_put"
    /\ UNCHANGED <<config_vars, reader_vars, idx, threads, error, timed_joins, perf_total,
                   perf_report, returned, queue_vars, worker_vars, monitor_vars, sink_vars,
                   stop_event>>

\* run_thread: thread.join() returns once the thread has terminated.
SeqJoin ==
    /\ pc = "seq_join"
    /\ w_pc[RunList(use_open_gl)[idx].thread] = "done"
    /\ pc' = "seq_put"
    /\ UNCHANGED <<config_vars, reader_vars, idx, threads, error, timed_joins, perf_total,
                   perf_report,
                   returned, queue_vars, worker_vars, monitor_vars, sink_vars, stop_event>>

\* run_thread: out_queue.put(None)
SeqPut ==
    /\ pc = "seq_put"
    /\ Put(RunList(use_open_gl)[idx].out_queue, Sentinel)
    /\ IF idx < Len(RunList(use_open_gl))
       THEN pc' = "seq_start" /\ idx' = idx + 1
       ELSE pc' = "set_stop" /\ idx' = 1
    /\ UNCHANGED <<config_vars, reader_vars, threads, error, timed_joins, perf_total,
                   perf_report,
                   returned, queues_created, worker_vars, monitor_vars, sink_vars,
                   stop_event>>

\* ---------------------------------------------- analyze_video: concurrent mode
\* threads = [...]
ConcThreads ==
    /\ pc = "conc_threads"
    /\ threads' = ThreadList(use_open_gl)
    /\ pc' = "conc_start"
    /\ UNCHANGED <<config_vars, reader_vars, idx, error, timed_joins, perf_total,
                   perf_report, returned,
                   queue_vars, worker_vars, monitor_vars, sink_vars, stop_event>>

\* for thread in threads: thread.start()
ConcStart ==
    /\ pc = "conc_start"
    /\ w_pc' = [w_pc EXCEPT ![threads[idx]] = "get"]
    /\ IF idx < Len(threads)
       THEN pc' = pc /\ idx' = idx + 1
       ELSE pc' = "conc_join" /\ idx' = 1
    /\ UNCHANGED <<config_vars, reader_vars, threads, error, timed_joins, perf_total,
                   perf_report,
                   returned, queue_vars, w_cur, w_exc, decode_next, monitor_vars, sink_vars,
                   stop_event>>

\* thread.start() raises: the threads before it in the list are running.
ConcStartFails ==
    /\ pc = "conc_start"
    /\ error' = "thread_start"
    /\ pc' = "except"
    /\ UNCHANGED <<config_vars, reader_vars, idx, threads, timed_joins, perf_total, perf_report,
                   returned, queue_vars, worker_vars, monitor_vars, sink_vars, stop_event>>

ConcJoinNoWait ==
    /\ pc = "conc_join"
    /\ IF idx < Len(threads)
       THEN pc' = pc /\ idx' = idx + 1
       ELSE pc' = "conc_check" /\ idx' = 1
    /\ UNCHANGED <<config_vars, reader_vars, threads, error, timed_joins, perf_total,
                   perf_report,
                   returned, queue_vars, worker_vars, monitor_vars, sink_vars, stop_event>>

\* for thread in threads: thread.join()
ConcJoin ==
    /\ pc = "conc_join"
    /\ w_pc[threads[idx]] = "done"
    /\ IF idx < Len(threads)
       THEN pc' = pc /\ idx' = idx + 1
       ELSE pc' = "conc_check" /\ idx' = 1
    /\ UNCHANGED <<config_vars, reader_vars, threads, error, timed_joins, perf_total,
                   perf_report,
                   returned, queue_vars, worker_vars, monitor_vars, sink_vars, stop_event>>

\* for thread in threads: thread.check_exception()
ConcCheck ==
    /\ pc = "conc_check"
    /\ w_exc[threads[idx]] = "none"
    /\ IF idx < Len(threads)
       THEN pc' = pc /\ idx' = idx + 1
       ELSE pc' = "set_stop" /\ idx' = 1
    /\ UNCHANGED <<config_vars, reader_vars, threads, error, timed_joins, perf_total,
                   perf_report,
                   returned, queue_vars, worker_vars, monitor_vars, sink_vars, stop_event>>

ConcCheckRaises ==
    /\ pc = "conc_check"
    /\ w_exc[threads[idx]] # "none"
    /\ error' = w_exc[threads[idx]]
    /\ pc' = "except"
    /\ UNCHANGED <<config_vars, reader_vars, idx, threads, timed_joins, perf_total, perf_report,
                   returned, queue_vars, worker_vars, monitor_vars, sink_vars, stop_event>>

\* ------------------------------------------------ analyze_video: finalization
\* state.analyze_task.end_time = time.time(); log_thread_stop_event.set()
SetStop ==
    /\ pc = "set_stop"
    /\ stop_event' = TRUE
    /\ pc' = "log_performance"
    /\ UNCHANGED <<config_vars, reader_vars, idx, threads, error, timed_joins, perf_total,
                   perf_report,
                   returned, queue_vars, worker_vars, monitor_vars, sink_vars>>

\* log_performance: tasks = [task for task in results_queue.queue if hasattr(task, 'profile')]
ProfiledTasksAll(s) == s
ProfiledTasks(s) == SelectSeq(s, LAMBDA t : ~IsSentinel(t))

\* for task in tasks: for key, total_time in task.profile.items(): ...
ProfileKeys(tasks) == UNION {{e.key : e \in tasks[i].profile} : i \in 1..Len(tasks)}
RECURSIVE TotalTime(_, _)
TotalTime(tasks, key) ==
    IF tasks = <<>> THEN 0
    ELSE LET es == {e \in Head(tasks).profile : e.key = key}
         IN (IF es = {} THEN 0 ELSE (CHOOSE e \in es : TRUE).duration)
            + TotalTime(Tail(tasks), key)
TaskCount(tasks, key) ==
    Cardinality({i \in 1..Len(tasks) : \E e \in tasks[i].profile : e.key = key})

\* aggregated_times[key] and avg_time = total_time / total_frames if
\* total_frames > 0 else 0.0, kept as the fraction avg_num / avg_den.
AggregatedTimes(tasks) ==
    [key \in ProfileKeys(tasks) |->
        [total_time |-> TotalTime(tasks, key),
         task_count |-> TaskCount(tasks, key),
         avg_num |-> IF Len(tasks) > 0 THEN TotalTime(tasks, key) ELSE 0,
         avg_den |-> IF Len(tasks) > 0 THEN Len(tasks) ELSE 1]]

\* The sequential report reads state.analyze_task.profile, which this file
\* does not write; only the concurrent report is computed here.
LogPerformance ==
    /\ pc = "log_performance"
    /\ perf_total' = Len(ProfiledTasks(q["result_q"]))
    /\ perf_report' = IF sequential_mode THEN perf_report
                      ELSE AggregatedTimes(ProfiledTasks(q["result_q"]))
    /\ pc' = "final_update"
    /\ UNCHANGED <<config_vars, reader_vars, idx, threads, error, timed_joins, returned,
                   queue_vars, worker_vars, monitor_vars, sink_vars, stop_event>>

\* if state.update_ui: state.update_ui(ProgressMessage(..., eta="Done"))
FinalUpdateSkipped ==
    /\ pc = "final_update"
    /\ ~has_update_ui
    /\ pc' = "return"
    /\ UNCHANGED <<config_vars, reader_vars, idx, threads, error, timed_joins, perf_total,
                   perf_report,
                   returned, queue_vars, worker_vars, monitor_vars, sink_vars, stop_event>>

FinalUpdate ==
    /\ pc = "final_update"
    /\ has_update_ui
    /\ sink_last' = [kind |-> "done", frames |-> total_frames, eta |-> DONE, elapsed |-> 0]
    /\ pc' = "return"
    /\ UNCHANGED <<config_vars, reader_vars, idx, threads, error, timed_joins, perf_total,
                   perf_report,
                   returned, queue_vars, worker_vars, monitor_vars, stop_event>>

\* The call is inside the try block of analyze_video: an exception goes to except.
FinalUpdateRaises ==
    /\ pc = "final_update"
    /\ has_update_ui
    /\ error' = "update_ui"
    /\ pc' = "except"
    /\ UNCHANGED <<config_vars, reader_vars, idx, threads, timed_joins, perf_total, perf_report,
                   returned, queue_vars, worker_vars, monitor_vars, sink_last, stop_event>>

\* return result_q.queue
Return ==
    /\ pc = "return"
    /\ returned' = q["result_q"]
    /\ pc' = "returned"
    /\ UNCHANGED <<config_vars, reader_vars, idx, threads, error, timed_joins, perf_total,
                   perf_report,
                   queue_vars, worker_vars, monitor_vars, sink_vars, stop_event>>

\* ---------------------------------------------------- analyze_video: except
ExceptNoStop ==
    /\ pc = "except"
    /\ idx' = 1
    /\ pc' = "cleanup"
    /\ UNCHANGED <<config_vars, reader_vars, threads, error, timed_joins, perf_total,
                   perf_report,
                   returned, queue_vars, worker_vars, monitor_vars, sink_vars, stop_event>>

\* log.error(...); log_thread_stop_event.set()
Except ==
    /\ pc = "except"
    /\ stop_event' = TRUE
    /\ idx' = 1
    /\ pc' = "cleanup"
    /\ UNCHANGED <<config_vars, reader_vars, threads, error, timed_joins, perf_total,
                   perf_report,
                   returned, queue_vars, worker_vars, monitor_vars, sink_vars>>

IsAlive(s) == w_pc[s] \in {"get", "put"}

\* for thread in threads: if thread is not None and thread.is_alive(): thread.join(timeout=1)
Cleanup ==
    /\ pc = "cleanup"
    /\ idx <= Len(threads)
    /\ timed_joins' = IF IsAlive(threads[idx]) THEN timed_joins \cup {threads[idx]}
                      ELSE timed_joins
    /\ idx' = idx + 1
    /\ UNCHANGED <<config_vars, reader_vars, pc, threads, error, perf_total,
                   perf_report, returned,
                   queue_vars, worker_vars, monitor_vars, sink_vars, stop_event>>

\* raise
Reraise ==
    /\ pc = "cleanup"
    /\ idx > Len(threads)
    /\ pc' = "raised"
    /\ UNCHANGED <<config_vars, reader_vars, idx, threads, error, timed_joins, perf_total,
                   perf_report,
                   returned, queue_vars, worker_vars, monitor_vars, sink_vars, stop_event>>

OrchestratorNext ==
    \/ CheckCreateOutputFolder \/ CheckCreateOutputFolderFails
    \/ SetVideoInfo \/ SetVideoInfoFails
    \/ ResolveVideoReader \/ CreatePipeline \/ StartMonitor
    \/ SeqStart \/ SeqStartFails \/ SeqJoin \/ SeqPut
    \/ ConcThreads \/ ConcStart \/ ConcStartFails \/ ConcJoin \/ ConcCheck \/ ConcCheckRaises
    \/ SetStop \/ LogPerformance
    \/ FinalUpdateSkipped \/ FinalUpdate \/ FinalUpdateRaises
    \/ Return \/ Except \/ Cleanup \/ Reraise

\* ------------------------------------------------------------ stage workers
\* The time a stage's transform takes on a frame (fixed per stage and frame).
Duration(s, id) ==
    id + (CASE s = "decode_thread" -> 1
            [] s = "opengl_thread" -> 2
            [] s = "yolo_thread" -> 3
            [] s = "yolo_analysis_thread" -> 4)

\* The stage's transform applied to a task: its duration is recorded in the
\* profile under the stage's key.
Processed(s, t) ==
    [t EXCEPT !.profile = @ \cup {[key |-> s, duration |-> Duration(s, t.id)]}]

\* The first stage takes the next frame from the video source and decodes it.
WorkerProduce ==
    /\ w_pc["decode_thread"] = "get"
    /\ decode_next < total_frames
    /\ decode_next' = decode_next + 1
    /\ w_cur' = [w_cur EXCEPT !["decode_thread"] =
                    Processed("decode_thread", NewTask(decode_next + 1))]
    /\ w_pc' = [w_pc EXCEPT !["decode_thread"] = "put"]
    /\ UNCHANGED <<config_vars, reader_vars, orch_vars, queue_vars, w_exc, monitor_vars,
                   sink_vars, stop_event>>

\* The video source is exhausted: the sentinel is the next item to push.
WorkerSourceExhausted ==
    /\ w_pc["decode_thread"] = "get"
    /\ decode_next = total_frames
    /\ w_cur' = [w_cur EXCEPT !["decode_thread"] = Sentinel]
    /\ w_pc' = [w_pc EXCEPT !["decode_thread"] = "put"]
    /\ UNCHANGED <<config_vars, reader_vars, orch_vars, queue_vars, w_exc, decode_next,
                   monitor_vars, sink_vars, stop_event>>

\* The decode transform raises: the error is stored and the worker terminates.
WorkerProduceFails ==
    /\ w_pc["decode_thread"] = "get"
    /\ decode_next < total_frames
    /\ decode_next' = decode_next + 1
    /\ w_exc' = [w_exc EXCEPT !["decode_thread"] = "decode_thread"]
    /\ w_pc' = [w_pc EXCEPT !["decode_thread"] = "done"]
    /\ UNCHANGED <<config_vars, reader_vars, orch_vars, queue_vars, w_cur, monitor_vars,
                   sink_vars, stop_event>>

\* A later stage pops a task from its input queue (blocking while empty) and
\* applies its transform.
WorkerGet(s) ==
    /\ s # "decode_thread"
    /\ w_pc[s] = "get"
    /\ q[InputQueue(s)] # <<>>
    /\ LET g == QueueGet(q[InputQueue(s)])
       IN /\ ~IsSentinel(g.item)
          /\ q' = [q EXCEPT ![InputQueue(s)] = g.rest]
          /\ w_cur' = [w_cur EXCEPT ![s] = Processed(s, g.item)]
    /\ w_pc' = [w_pc EXCEPT ![s] = "put"]
    /\ UNCHANGED <<config_vars, reader_vars, orch_vars, queues_created, pushed, w_exc,
                   decode_next, monitor_vars, sink_vars, stop_event>>

\* It pops the sentinel: the input is exhausted.
WorkerGetSentinel(s) ==
    /\ s # "decode_thread"
    /\ w_pc[s] = "get"
    /\ q[InputQueue(s)] # <<>>
    /\ LET g == QueueGet(q[InputQueue(s)])
       IN /\ IsSentinel(g.item)
          /\ q' = [q EXCEPT ![InputQueue(s)] = g.rest]
          /\ w_cur' = [w_cur EXCEPT ![s] = Sentinel]
    /\ w_pc' = [w_pc EXCEPT ![s] = "put"]
    /\ UNCHANGED <<config_vars, reader_vars, orch_vars, queues_created, pushed, w_exc,
                   decode_next, monitor_vars, sink_vars, stop_event>>

\* Its transform raises on the task it popped.
WorkerGetFails(s) ==
    /\ s # "decode_thread"
    /\ w_pc[s] = "get"
    /\ q[InputQueue(s)] # <<>>
    /\ LET g == QueueGet(q[InputQueue(s)])
       IN /\ ~IsSentinel(g.item)
          /\ q' = [q EXCEPT ![InputQueue(s)] = g.rest]
    /\ w_exc' = [w_exc EXCEPT ![s] = s]
    /\ w_pc' = [w_pc EXCEPT ![s] = "done"]
    /\ UNCHANGED <<config_vars, reader_vars, orch_vars, queues_created, pushed, w_cur,
                   decode_next, monitor_vars, sink_vars, stop_event>>

\* The worker pushes what it holds downstream (blocking while the queue is
\* full); after pushing the sentinel it terminates.
WorkerPut(s) ==
    /\ w_pc[s] = "put"
    /\ Put(OutputQueue(s), w_cur[s])
    /\ w_pc' = [w_pc EXCEPT ![s] = IF IsSentinel(w_cur[s]) THEN "done" ELSE "get"]
    /\ UNCHANGED <<config_vars, reader_vars, orch_vars, queues_created, w_cur, w_exc,
                   decode_next, monitor_vars, sink_vars, stop_event>>

WorkerNext ==
    \/ WorkerProduce \/ WorkerSourceExhausted \/ WorkerProduceFails
    \/ \E s \in Stages : WorkerGet(s)
    \/ \E s \in Stages : WorkerGetSentinel(s)
    \/ \E s \in Stages : WorkerGetFails(s)
    \/ \E s \in Stages : WorkerPut(s)

\* --------------------------------------------------------------- log_progress
MonitorPollNoSelfStop ==
    /\ m_pc = "loop"
    /\ ~stop_event
    /\ m_frames' = Len(q["result_q"])
    /\ m_pc' = IF has_update_ui THEN "send" ELSE "loop"
    /\ UNCHANGED <<config_vars, reader_vars, orch_vars, queue_vars, worker_vars, sink_vars,
                   stop_event>>

\* One iteration of the loop up to the sink call: while not stop_event.is_set():
\* frames_processed = results_q.qsize(); if frames_processed >= total_frames:
\* stop_event.set()
MonitorPoll ==
    /\ m_pc = "loop"
    /\ ~stop_event
    /\ m_frames' = Len(q["result_q"])
    /\ stop_event' = (Len(q["result_q"]) >= total_frames)
    /\ m_pc' = IF has_update_ui THEN "send" ELSE "loop"
    /\ UNCHANGED <<config_vars, reader_vars, orch_vars, queue_vars, worker_vars, sink_vars>>

\* elapsed_time = time.time() - start_time; ...; state.update_ui(ProgressMessage(...));
\* time.sleep(UPDATE_PROGRESS_INTERVAL)
MonitorSend ==
    /\ m_pc = "send"
    /\ \E elapsed \in ElapsedTimes :
          sink_last' = [kind |-> "progress", frames |-> m_frames,
                        eta |-> EtaString(total_frames, m_frames, elapsed),
                        elapsed |-> elapsed]
    /\ m_pc' = "loop"
    /\ UNCHANGED <<config_vars, reader_vars, orch_vars, queue_vars, worker_vars, m_frames,
                   stop_event>>

\* time.gmtime(eta) raises for a negative eta on platforms that do not support
\* times before the epoch (OSError on Windows): caught at line 160, nothing is
\* delivered.
MonitorEtaRaises ==
    /\ m_pc = "send"
    /\ \E elapsed \in ElapsedTimes :
          /\ ~RateIsZero(m_frames, elapsed)
          /\ EtaSeconds(total_frames, m_frames, elapsed) < 0
    /\ m_pc' = "loop"
    /\ UNCHANGED <<config_vars, reader_vars, orch_vars, queue_vars, worker_vars, m_frames,
                   sink_vars, stop_event>>

\* except Exception as e: log.error(...)
MonitorSendFails ==
    /\ m_pc = "send"
    /\ m_pc' = "loop"
    /\ UNCHANGED <<config_vars, reader_vars, orch_vars, queue_vars, worker_vars, m_frames,
                   sink_last, stop_event>>

\* The loop condition is false: log_progress returns.
MonitorExit ==
    /\ m_pc = "loop"
    /\ stop_event
    /\ m_pc' = "exit"
    /\ UNCHANGED <<config_vars, reader_vars, orch_vars, queue_vars, worker_vars, m_frames,
                   sink_vars, stop_event>>

MonitorNext == MonitorPoll \/ MonitorSend \/ MonitorEtaRaises \/ MonitorSendFails \/ MonitorExit

\* ------------------------------------------------------------ specification
Next == OrchestratorNext \/ WorkerNext \/ MonitorNext

Spec == Init /\ [][Next]_vars

\* ------------------------------------------------------------ vocabulary
FailedStages == {s \in Stages : w_exc[s] # "none"}
ActiveStages == {s \in Stages : w_pc[s] # "absent"}
DataIds(s) == SelectSeq(s, LAMBDA i : i # 0)
TaskIds(s) == [i \in 1..Len(SelectSeq(s, LAMBDA t : ~IsSentinel(t))) |->
                  SelectSeq(s, LAMBDA t : ~IsSentinel(t))[i].id]
SentinelCount(s) == Len(SelectSeq(s, LAMBDA i : i = 0))
IsPrefix(a, b) == Len(a) <= Len(b) /\ SubSeq(b, 1, Len(a)) = a
\* analyze_video or a stage worker can take a step (the monitor is not counted).
PipelineCanStep == ENABLED (OrchestratorNext \/ WorkerNext)
\* Position of a stage in the pipeline: decode, convert, detect, analyze.
StageRank(s) ==
    CASE s = "decode_thread" -> 1
      [] s = "opengl_thread" -> 2
      [] s = "yolo_thread" -> 3
      [] s = "yolo_analysis_thread" -> 4

\* ------------------------------------------------------------------ claims
\* C1: in concurrent mode, when a single stage's transform has failed, the run
\* terminates by raising that stage's stored error; analyze_video is never
\* left blocked in a join with no thread of the pipeline able to step.
C1_FailedStageRunRaises ==
    (~sequential_mode /\ Cardinality(FailedStages) = 1)
        => \/ pc = "raised" /\ error \in FailedStages
           \/ PipelineCanStep

\* C2: in sequential mode with no failing stage, analyze_video returns for
\* every frame count and every capacity: it is never left blocked (in a join
\* of a stage blocked on a full queue whose consumer is not started, or in its
\* own put of the sentinel) with no thread of the pipeline able to step.
C2_SequentialRunReturns ==
    (sequential_mode /\ FailedStages = {} /\ error = "none")
        => pc = "returned" \/ PipelineCanStep

\* C3: analyze_video never returns normally from a run in which a stage
\* worker has stored an error.
C3_FailedRunNeverReturns ==
    pc \in {"return", "returned"} => FailedStages = {}

\* C4: in concurrent mode check_exception is queried only after every stage
\* worker has terminated and been joined, and the error raised is the stored
\* error of the earliest failed stage in pipeline order.
C4_FirstStageErrorAfterJoin ==
    /\ (pc = "conc_check" \/ (~sequential_mode /\ error \in Stages))
           => \A s \in Stages : w_pc[s] \in {"done", "absent"}
    /\ (~sequential_mode /\ error \in Stages)
           => /\ error \in FailedStages
              /\ \A s \in FailedStages : StageRank(error) <= StageRank(s)
    /\ (~sequential_mode /\ pc \in {"set_stop", "log_performance", "final_update",
                                    "return", "returned"})
           => FailedStages = {}

C4_Witness ==
    /\ ~sequential_mode
    /\ pc = "raised"
    /\ Cardinality(FailedStages) >= 2
    /\ error = "yolo_thread"

\* C5: in a completed run without stage failure, every queue an active stage
\* writes to has received exactly one sentinel, as the last item pushed.
C5_OneSentinelPerQueue ==
    (pc = "returned" /\ FailedStages = {})
        => \A s \in ActiveStages :
              /\ SentinelCount(pushed[OutputQueue(s)]) = 1
              /\ pushed[OutputQueue(s)][Len(pushed[OutputQueue(s)])] = 0

C7_QueuesBounded ==
    /\ \A name \in {"opengl_q", "yolo_q", "analysis_q"} :
          /\ Len(TaskIds(q[name])) <= queue_maxsize
          /\ Len(q[name]) <= queue_maxsize
    /\ \A s \in Stages :
          (w_pc[s] = "put" /\ OutputQueue(s) # "result_q"
                /\ Len(q[OutputQueue(s)]) >= queue_maxsize)
             => ~ENABLED WorkerPut(s)
    /\ w_pc["yolo_analysis_thread"] = "put" => ENABLED WorkerPut("yolo_analysis_thread")

C7_Witness ==
    /\ total_frames > queue_maxsize
    /\ \E s \in Stages :
          /\ w_pc[s] = "put"
          /\ ~IsSentinel(w_cur[s])
          /\ OutputQueue(s) # "result_q"
          /\ Len(TaskIds(q[OutputQueue(s)])) = queue_maxsize

\* C8: in concurrent mode without stage failure, the collection returned
\* holds exactly total_frames items, none of them the sentinel.
C8_ReturnsExactlyTheUnits ==
    (~sequential_mode /\ pc = "returned" /\ FailedStages = {})
        => /\ Len(returned) = total_frames
           /\ \A i \in 1..Len(returned) : ~IsSentinel(returned[i])

\* The reader has been resolved: analyze_video is past the override.
Resolved ==
    /\ pc \notin {"check_create_output_folder", "set_video_info", "resolve_reader"}
    /\ error \notin {"check_create_output_folder", "set_video_info"}

\* C9 (as stated): whenever the video is 2D or fisheye, the reader has been
\* overridden to plain FFmpeg with a logged warning.
C9_OverrideAlwaysLogged ==
    (Resolved /\ (~is_vr \/ is_fisheye))
        => video_reader = FFMPEG_READER /\ warnings # {}

\* C9 (amended): the conversion stage is active exactly when the OpenGL reader
\* was requested and the video is VR and not fisheye; when the OpenGL reader
\* was requested and the video is 2D or fisheye, the reader is overridden to
\* FFmpeg with the matching warning logged; without the conversion stage the
\* decode stage writes to yolo_q, the conversion worker does not exist and
\* opengl_q never receives a task; no worker exists before the reader is
\* resolved, and from then on the reader keeps the resolved value.
C9_ConversionStageSelection ==
    /\ ~Resolved => (ActiveStages = {} /\ ~queues_created)
    /\ Resolved =>
        /\ use_open_gl = (requested_reader = OPENGL_READER /\ is_vr /\ ~is_fisheye)
        /\ video_reader = (IF requested_reader = OPENGL_READER /\ (~is_vr \/ is_fisheye)
                           THEN FFMPEG_READER ELSE requested_reader)
        /\ (requested_reader = OPENGL_READER /\ ~is_vr) => WARN_2D \in warnings
        /\ (requested_reader = OPENGL_READER /\ is_fisheye) => WARN_FISHEYE \in warnings
        /\ requested_reader # OPENGL_READER => warnings = {}
    /\ (queues_created /\ ~use_open_gl) =>
        /\ OutputQueue("decode_thread") = "yolo_q"
        /\ ActiveStages = {"decode_thread", "yolo_thread", "yolo_analysis_thread"}
        /\ DataIds(pushed["opengl_q"]) = <<>>
    /\ (queues_created /\ use_open_gl) =>
        /\ OutputQueue("decode_thread") = "opengl_q"
        /\ ActiveStages = Stages

C9_Witness ==
    /\ requested_reader = OPENGL_READER
    /\ is_vr
    /\ is_fisheye
    /\ pc = "returned"
    /\ FailedStages = {}
    /\ ~use_open_gl
    /\ video_reader = FFMPEG_READER
    /\ WARN_FISHEYE \in warnings
    /\ Len(TaskIds(returned)) >= 1

\* C10: in a run whose setup and stages did not fail, an exception of
\* state.update_ui is never the error analyze_video catches and re-raises.
C10_SinkFailureNeverRaised ==
    FailedStages = {} => error # "update_ui"

\* C11: in a successful run with a progress sink, once analyze_video has
\* delivered the completion update (eta "Done") it stays the last update the
\* sink received: no update of the monitor is delivered after it.
C11_DoneIsLastUpdate ==
    (has_update_ui /\ pc \in {"return", "returned"}) => sink_last.kind = "done"

\* The monitor thread is scheduled as long as it can step.
FairSpec == Spec /\ WF_vars(MonitorNext)

\* C12: when analyze_video raises, the stop event is set, every thread of the
\* threads list that is alive was joined with a timeout, no step of the except
\* block can block, the error raised is the one that was caught, and a started
\* monitor eventually leaves its loop.
C12_FailurePathCleansUp ==
    /\ [](pc = "raised" =>
            /\ stop_event
            /\ error # "none"
            /\ \A i \in 1..Len(threads) :
                  IsAlive(threads[i]) => threads[i] \in timed_joins)
    /\ [](pc \in {"except", "cleanup"} => ENABLED OrchestratorNext)
    /\ [][(pc \in {"except", "cleanup"}) => (error' = error)]_vars
    /\ ((pc = "raised" /\ m_pc # "unstarted") ~> (m_pc = "exit"))

C12_Witness ==
    /\ pc = "raised"
    /\ error = "thread_start"
    /\ \E i \in 1..Len(threads) : IsAlive(threads[i]) /\ threads[i] \in timed_joins
    /\ m_pc = "exit"

\* C13: when check_create_output_folder or state.set_video_info fails,
\* analyze_video goes straight to its except block and raises that error; no
\* queue has been created and neither a stage worker nor the monitor has been
\* started.
C13_SetupFailureBeforeAnyThread ==
    error \in {"check_create_output_folder", "set_video_info"}
        => /\ pc \in {"except", "cleanup", "raised"}
           /\ ~queues_created
           /\ \A s \in Stages : w_pc[s] = "absent"
           /\ m_pc = "unstarted"
           /\ threads = <<>>
           /\ returned = <<>>

C13_Witness ==
    /\ pc = "raised"
    /\ error = "set_video_info"
    /\ stop_event

\* C14: log_performance and the return happen only when every stage worker
\* that exists has terminated (both modes); from the aggregation on, the
\* last stage cannot push to the results queue, and the value returned is the
\* results queue as aggregated.
C14_AggregationAfterJoin ==
    /\ pc \in {"log_performance", "final_update", "return", "returned"}
          => /\ \A s \in ActiveStages : w_pc[s] = "done"
             /\ ~ENABLED WorkerPut("yolo_analysis_thread")
    /\ pc \in {"final_update", "return", "returned"}
          => perf_total = Len(DataIds(pushed["result_q"]))
    /\ pc = "returned" => returned = q["result_q"]

C14_Witness ==
    /\ pc = "log_performance"
    /\ ~sequential_mode
    /\ use_open_gl
    /\ Len(q["result_q"]) >= 2

\* C15: in every update of the monitor the ETA is "Calculating..." exactly
\* when the processing rate is zero (no completed unit, or no elapsed time),
\* and otherwise it is the value (total - completed) / (completed / elapsed).
C15_EtaReported ==
    sink_last.kind = "progress"
        => /\ (sink_last.eta = CALCULATING)
                  <=> (sink_last.frames = 0 \/ sink_last.elapsed = 0)
           /\ (sink_last.frames > 0 /\ sink_last.elapsed > 0)
                  => sink_last.eta.h * 3600 + sink_last.eta.m * 60 + sink_last.eta.s
                        = ((total_frames - sink_last.frames) * sink_last.elapsed)
                              \div sink_last.frames

\* The durations stage s recorded on the frames with the given ids, summed.
RECURSIVE ExpectedTotal(_, _)
ExpectedTotal(s, ids) ==
    IF ids = <<>> THEN 0 ELSE Duration(s, Head(ids)) + ExpectedTotal(s, Tail(ids))

\* C16: log_performance counts as total units exactly the frame tasks of the
\* results queue (never a sentinel), and in the concurrent report the average
\* of each stage is the sum of that stage's durations over the counted tasks
\* divided by the number of counted tasks.
C16_PerformanceAverages ==
    pc \in {"final_update", "return", "returned"}
        => /\ perf_total = Len(DataIds(pushed["result_q"]))
           /\ perf_total = Len(q["result_q"]) - SentinelCount(pushed["result_q"])
           /\ ~sequential_mode =>
                /\ DOMAIN perf_report = (IF perf_total > 0 THEN ActiveStages ELSE {})
                /\ \A key \in DOMAIN perf_report :
                      /\ perf_report[key].avg_num
                            = ExpectedTotal(key, DataIds(pushed["result_q"]))
                      /\ perf_report[key].avg_den = perf_total
                      /\ perf_report[key].task_count = perf_total

C16_Witness ==
    /\ pc = "returned"
    /\ ~sequential_mode
    /\ use_open_gl
    /\ perf_total >= 2
    /\ SentinelCount(pushed["result_q"]) = 1
    /\ perf_report["yolo_thread"].avg_num
          = Duration("yolo_thread", 1) + Duration("yolo_thread", 2)

\* C17: in sequential mode the sentinel analyze_video appends after a stage
\* goes into that stage's own output queue (after decode without the
\* conversion stage: yolo_q).
C17_SentinelIntoStageOutput ==
    pc = "seq_put"
        => RunList(use_open_gl)[idx].out_queue
              = OutputQueue(RunList(use_open_gl)[idx].thread)

\* The stage workers that are running.
AliveStages == {s \in Stages : IsAlive(s)}

\* C18: in sequential mode at most one stage worker is alive at any time,
\* and while one is alive or being started every stage before it in the
\* pipeline has terminated and no stage after it has been started.
C18_OneStageAtATime ==
    sequential_mode
        => /\ Cardinality(AliveStages) <= 1
           /\ \A s \in ActiveStages :
                 (IsAlive(s) \/ (pc = "seq_start" /\ RunList(use_open_gl)[idx].thread = s))
                    => \A t \in ActiveStages :
                          /\ StageRank(t) < StageRank(s) => w_pc[t] = "done"
                          /\ StageRank(t) > StageRank(s) => w_pc[t] = "created"

C18_Witness ==
    /\ sequential_mode
    /\ use_open_gl
    /\ w_pc["yolo_thread"] = "put"
    /\ ~IsSentinel(w_cur["yolo_thread"])
    /\ w_pc["opengl_thread"] = "done"
    /\ w_pc["yolo_analysis_thread"] = "created"

\* C19: a poll of the monitor that reads a results-queue depth of at least
\* total_frames sets the stop event itself; with the stop event set no
\* further poll can start; the stop event is never cleared.
C19_MonitorSelfStop ==
    /\ []((m_pc = "send" /\ m_frames >= total_frames) => stop_event)
    /\ [][(m_pc = "loop" /\ ~stop_event /\ m_frames' >= total_frames
               /\ (m_pc' = "send" \/ m_frames' # m_frames))
             => stop_event']_vars
    /\ [](stop_event => ~ENABLED MonitorPoll)
    /\ [][stop_event => stop_event']_vars

C19_Witness ==
    /\ stop_event
    /\ pc = "conc_join"
    /\ total_frames >= 2
    /\ m_frames = total_frames
    /\ m_pc = "exit"

\* C20: every progress update delivered to the sink has
\* 0 <= frames_processed <= total_frames.
C20_ProgressWithinTotal ==
    sink_last.kind # "none"
        => sink_last.frames >= 0 /\ sink_last.frames <= total_frames

====
